---- MODULE Spec2Model ----
(***************************************************************************)
(* A model of belay's package manager:                                     *)
(*   - download_uri, the downloader dispatch                               *)
(*       (src/belay/packagemanager/downloaders/common.py)                  *)
(*   - _process_url, the locator resolver, and download_dependencies, the  *)
(*       single-file path that uses it (src/belay/packagemanager.py)       *)
(*   - Group.__init__, Group.download, Group.clean and Group.copy_to       *)
(*       (src/belay/packagemanager/group.py)                               *)
(* Each part has its own specification over the shared variables; the     *)
(* variables of the other parts stay at their idle values.                 *)
(***************************************************************************)
EXTENDS Integers, Sequences, FiniteSets, TLC

\* ------------------------------------------------------------------ bounds
\* Size of the downloader registry.
MaxStrategies == 3
\* Path segments of a locator URL.
MaxSegs == 6
\* Declared packages of the group.
MaxPkgs == 2
\* Calls of Group.download in one behaviour.
MaxCalls == 2

VARIABLES
    \* --- download_uri
    reg,        \* what each registered strategy does with the uri, in registration order
    genOut,     \* what _download_generic does with the uri
    dpc,        \* "loop" | "returned" | "raised"
    dIdx,       \* position of the for loop in downloaders.values()
    dCalls,     \* the processors invoked so far, in order (0 is _download_generic)
    dResult,    \* what download_uri returned or raised
    \* --- _process_url
    url,        \* the locator, as urlparse splits it
    resolved,   \* the outcome of _process_url(url)
    \* --- Group: construction
    optional,     \* self.config.optional
    constructed,  \* "no" | "yes" (Group(...) returned) | the exception it raised
    \* --- Group: the configuration and the file system
    deps,         \* self.config.dependencies: package -> declaration
    folderExists, \* self.folder.exists()
    folder,       \* the entries directly under self.folder, by name
    staging,      \* the packages whose TemporaryDirectory exists
    staged,       \* the tree inside the TemporaryDirectory
    \* --- Group.download: the call in progress (or the last one)
    pc,           \* "idle" | "package" | "fetch" | "verify" | "sync"
    callNo,       \* calls of download so far
    callsLeft,    \* calls of download still to come
    arg,          \* the packages argument
    console,      \* whether a console was passed
    work,         \* packages, after line 93
    idx,          \* position of the for loop in packages
    outcome,      \* "none" | "running" | "returned" | the exception raised
    log,          \* what console.log received in this call
    \* --- history of the call, for the properties
    pre,          \* folder when the call started
    preExists,    \* folderExists when the call started
    attempted,    \* packages whose loop body was entered, in order
    fetched,      \* packages download_uri was called for, in order
    handed,       \* the uri argument of each of those calls, in order
    verified,     \* packages whose staged tree passed _verify_files
    synced,       \* packages sync was called for
    changedOf,    \* what sync returned, by package
    nStaged,      \* TemporaryDirectory objects created
    prevCompleted, \* packages the previous call carried through sync
    env,          \* what download_uri and sync did in this call, in order
    first,        \* the record of an earlier call, kept for comparison with this one
    \* --- Group.clean
    cleanOutcome, \* "none" | "returned" | the exception raised
    preClean,     \* folder when clean was called
    \* --- Group.copy_to
    target,       \* the entries directly under dst, by name
    copyOutcome,  \* "none" | "returned"
    \* --- download_dependencies
    legDeps,      \* dependencies: package -> declaration
    legFile,      \* the text of local_dir / (pkg_name + ".py"), or "missing"
    legDirExists, \* whether local_dir exists
    legPc,        \* "idle" | "package" | "fetch"
    legArg,       \* the packages argument
    legConsole,   \* whether a console was passed
    legWork,      \* packages, after line 82
    legIdx,       \* position of the for loop in packages
    legOutcome,   \* "none" | "running" | "returned" | the exception raised
    legLog,       \* what console.log received
    \* --- history of that call, for the properties
    legPre,       \* legFile when the call started
    legText,      \* new_code by package, "none" before _get_text returned
    legParsed,    \* packages whose new_code passed ast.parse
    legWrites,    \* packages dst.write_text was called for, in order
    legDone       \* packages whose loop body ran to its end

dvars == <<reg, genOut, dpc, dIdx, dCalls, dResult>>
uvars == <<url, resolved>>
fsvars == <<deps, folderExists, folder, staging, staged>>
callvars == <<pc, callNo, callsLeft, arg, console, work, idx, outcome, log>>
histvars == <<pre, preExists, attempted, fetched, handed, verified, synced, changedOf, nStaged,
              prevCompleted, env>>
tvars == <<first>>
ovars == <<optional, constructed, target, copyOutcome>>
cvars == <<cleanOutcome, preClean>>
gvars == <<fsvars, callvars, histvars, cvars, tvars, ovars>>
legvars == <<legDeps, legFile, legDirExists, legPc, legArg, legConsole, legWork, legIdx,
             legOutcome, legLog, legPre, legText, legParsed, legWrites, legDone>>
vars == <<dvars, uvars, gvars, legvars>>

\* ------------------------------------------------------------ download_uri
\* A processor called with (dst_folder, uri) returns dst, returns the path of a single
\* file, raises NonMatchingURI, or raises another error.
StrategyOutcomes == {"dst", "file", "NonMatchingURI", "error"}
\* _download_generic returns dst / Path(uri).name, returns dst (a directory), or the
\* fetch raises; it has no path that raises NonMatchingURI.
GenericOutcomes == {"dst", "file", "error"}
GENERIC == 0

SeqsUpTo(S, n) == UNION {[1..k -> S] : k \in 0..n}

NoResult == [kind |-> "none", by |-> GENERIC, value |-> "none"]

DispatchIdle ==
    /\ reg = <<>> /\ genOut = "dst" /\ dpc = "idle" /\ dIdx = 1
    /\ dCalls = <<>> /\ dResult = NoResult

DispatchInit ==
    /\ reg \in SeqsUpTo(StrategyOutcomes, MaxStrategies)
    /\ genOut \in GenericOutcomes
    /\ dpc = "loop" /\ dIdx = 1 /\ dCalls = <<>> /\ dResult = NoResult

IsNonMatchingCaughtAll(o) == o \in {"NonMatchingURI", "error"}
\* except NonMatchingURI: pass
IsNonMatching(o) == o = "NonMatchingURI"

IsReturn(o) == o \in {"dst", "file"}

\* One iteration of the for loop: return processor(dst_folder, uri), or pass on
\* NonMatchingURI; any other exception leaves download_uri.
InvokeStrategy ==
    /\ dpc = "loop" /\ dIdx <= Len(reg)
    /\ dCalls' = Append(dCalls, dIdx)
    /\ IF IsNonMatching(reg[dIdx])
         THEN /\ dIdx' = dIdx + 1
              /\ UNCHANGED <<dpc, dResult>>
         ELSE /\ dpc' = IF IsReturn(reg[dIdx]) THEN "returned" ELSE "raised"
              /\ dResult' = [kind |-> IF IsReturn(reg[dIdx]) THEN "return" ELSE "raise",
                             by |-> dIdx, value |-> reg[dIdx]]
              /\ UNCHANGED dIdx
    /\ UNCHANGED <<reg, genOut, uvars, gvars, legvars>>

\* The for loop's else branch: the loop ran out without returning.
InvokeGeneric ==
    /\ dpc = "loop" /\ dIdx > Len(reg)
    /\ dCalls' = Append(dCalls, GENERIC)
    /\ dpc' = IF IsReturn(genOut) THEN "returned" ELSE "raised"
    /\ dResult' = [kind |-> IF IsReturn(genOut) THEN "return" ELSE "raise",
                   by |-> GENERIC, value |-> genOut]
    /\ UNCHANGED <<reg, genOut, dIdx, uvars, gvars, legvars>>

\* ------------------------------------------------------------ _process_url
\* A locator as urlparse sees it. netloc is kept as urlparse gives it, port included;
\* segs is parsed.path.split("/") without its leading empty string, so the path "" is
\* <<>> and "/u/p" is <<"u", "p">>; query stands for everything after the path.
Schemes == {"http", "https"}
Hosts == {"github.com", "raw.githubusercontent.com", "example.com"}
Ports == {"", ":443"}
SegNames == {"a", "b"}
Queries == {"", "?token=t"}

Netloc(www, host, port) == [www |-> www, host |-> host, port |-> port]

Urls ==
    [scheme : Schemes, netloc : [www : BOOLEAN, host : Hosts, port : Ports],
     segs : SeqsUpTo(SegNames, MaxSegs), query : Queries]

\* if url.startswith("www."): url = url[4:]
_strip_www(netloc) == [netloc EXCEPT !.www = FALSE]

PlainNetloc(host) == Netloc(FALSE, host, "")

Tail4(s) == SubSeq(s, 5, Len(s))

\* '/'.join(path) appended after "{branch}/": an empty path leaves the trailing slash,
\* which reads back as one empty segment.
JoinAfterSlash(path) == IF path = <<>> THEN <<"">> ELSE path

RawUrl(segs) ==
    [scheme |-> "https", netloc |-> PlainNetloc("raw.githubusercontent.com"),
     segs |-> segs, query |-> ""]

Ok(u) == [kind |-> "ok", url |-> u]
Raise(e) == [kind |-> "raise", exc |-> e]

_process_url_github_keepmode(u) ==
    LET netloc == _strip_www(u.netloc) IN
    IF netloc = PlainNetloc("github.com")
      THEN IF Len(u.segs) < 4
             THEN Raise("ValueError")
             ELSE Ok(RawUrl(SubSeq(u.segs, 1, 4) \o JoinAfterSlash(Tail4(u.segs))))
      ELSE IF netloc = PlainNetloc("raw.githubusercontent.com")
             THEN Ok(RawUrl(u.segs))
             ELSE Raise("NonMatchingURL")

\* _, user, project, mode, branch, *path = parsed.path.split("/") needs four segments
\* after the leading empty string, else the unpacking raises ValueError.
_process_url_github(u) ==
    LET netloc == _strip_www(u.netloc) IN
    IF netloc = PlainNetloc("github.com")
      THEN IF Len(u.segs) < 4
             THEN Raise("ValueError")
             ELSE Ok(RawUrl(<<u.segs[1], u.segs[2], u.segs[4]>>
                            \o JoinAfterSlash(Tail4(u.segs))))
      ELSE IF netloc = PlainNetloc("raw.githubusercontent.com")
             THEN Ok(RawUrl(u.segs))
             ELSE Raise("NonMatchingURL")

_process_url_stripped(u) ==
    LET r == _process_url_github(u) IN
    IF r.kind = "raise" /\ r.exc = "NonMatchingURL"
      THEN Ok([u EXCEPT !.netloc = _strip_www(u.netloc)])
      ELSE r

_process_url_uncaught(u) == _process_url_github(u)

_process_url_catchall(u) ==
    LET r == _process_url_github(u) IN
    IF r.kind = "raise" THEN Ok(u) ELSE r

\* The parsers list holds _process_url_github alone: its result is returned,
\* NonMatchingURL falls through to the unmodified url, anything else propagates.
_process_url(u) ==
    LET r == _process_url_github(u) IN
    IF r.kind = "raise" /\ r.exc = "NonMatchingURL" THEN Ok(u) ELSE r

Unresolved == [kind |-> "none"]

UrlIdle == url = RawUrl(<<>>) /\ resolved = Unresolved

UrlInit == url \in Urls /\ resolved = Unresolved

Resolve ==
    /\ resolved = Unresolved
    /\ resolved' = _process_url(url)
    /\ UNCHANGED <<url, dvars, gvars, legvars>>

\* ------------------------------------------------- Group: the file system
\* Packages are numbered in declaration order (the order of dependencies.keys()).
Pkgs == 1..MaxPkgs
\* Further names, which no declaration uses.
MaxStray == 2
EntryNames == 1..(MaxPkgs + MaxStray)

\* A directory tree: what each file holds. "bad" is text ast.parse rejects.
Files == {"a.py", "r.txt"}
Tree == [Files -> {"none", "ok", "bad"}]
EmptyTree == [f \in Files |-> "none"]
TreeA == [f \in Files |-> IF f = "a.py" THEN "ok" ELSE "none"]
TreeB == [f \in Files |-> IF f = "a.py" THEN "ok" ELSE "bad"]
TreeX == [f \in Files |-> IF f = "a.py" THEN "bad" ELSE "ok"]

Absent == [kind |-> "absent", tree |-> EmptyTree]
Dir(t) == [kind |-> "dir", tree |-> t]
FileEntry == [kind |-> "file", tree |-> EmptyTree]

\* What each locator's remote holds; it does not change during a behaviour.
Locators == {"locA", "locB", "locX"}
Remote(loc) ==
    CASE loc = "locA" -> TreeA
      [] loc = "locB" -> TreeB
      [] OTHER -> TreeX

\* The locators as URLs: a github.com blob URL, a URL of another host, and a
\* raw.githubusercontent.com URL.
LocatorUrl(loc) ==
    CASE loc = "locA" ->
           [scheme |-> "https", netloc |-> PlainNetloc("github.com"),
            segs |-> <<"a", "b", "a", "b", "a">>, query |-> ""]
      [] loc = "locB" ->
           [scheme |-> "https", netloc |-> PlainNetloc("example.com"),
            segs |-> <<"a", "b">>, query |-> ""]
      [] OTHER -> RawUrl(<<"a", "b", "b", "b">>)

\* The values a declaration may have in the parsed pyproject.toml.
Decls ==
    {[kind |-> "str", remote |-> l] : l \in Locators}
      \cup {[kind |-> "dict", remote |-> "locA"],
            [kind |-> "dict_extra", remote |-> "locB"],
            [kind |-> "dict_noremote", remote |-> "-"],
            [kind |-> "list", remote |-> "-"],
            [kind |-> "other", remote |-> "-"]}

IsStr(d) == d.kind = "str"
IsListNever(d) == FALSE
\* isinstance(dep_src, list)
IsList(d) == d.kind = "list"
\* isinstance(dep_src, dict)
IsDict(d) == d.kind \in {"dict", "dict_extra", "dict_noremote"}
\* dep_src["remote"] after normalisation
HasRemote(d) == d.kind \in {"str", "dict", "dict_extra"}

HandedUriResolved(d) == _process_url(LocatorUrl(d.remote)).url
\* The second argument of download_uri(tmp_dir, dep_src["remote"]).
HandedUri(d) == LocatorUrl(d.remote)

\* f.suffix == ".py"
IsPy(f) == f = "a.py"

_verify_files_nothing(t) == TRUE
\* ast.parse of every .py file under the folder: TRUE when none raises.
_verify_files(t) == \A f \in Files : (IsPy(f) /\ t[f] # "none") => t[f] # "bad"

\* The whole of download_uri: the first registered strategy that does not raise
\* NonMatchingURI decides, and _download_generic does when there is none.
FirstTaker(r) ==
    IF \E k \in 1..Len(r) : ~IsNonMatching(r[k])
      THEN CHOOSE k \in 1..Len(r) :
             /\ ~IsNonMatching(r[k])
             /\ \A j \in 1..(k - 1) : IsNonMatching(r[j])
      ELSE GENERIC

download_uri(r, g) ==
    LET k == FirstTaker(r)
        o == IF k = GENERIC THEN g ELSE r[k]
    IN  [kind |-> IF IsReturn(o) THEN "return" ELSE "raise", by |-> k, value |-> o]

FetchOutcomes ==
    {download_uri(r, g).kind :
       r \in SeqsUpTo(StrategyOutcomes, MaxStrategies), g \in GenericOutcomes}

\* sync(src, dst) of belay.packagemanager.sync: dst mirrors src, and the result tells
\* whether dst differed; a failing sync leaves dst as it was.
sync(src, dst) == [dst |-> src, changed |-> src # dst]
SyncOutcomes == {"ok", "error"}

\* ----------------------------------------------------------- Group.download
None == [given |-> FALSE, names |-> <<>>]
Some(names) == [given |-> TRUE, names |-> names]

NoRepeat(s) == \A i, j \in 1..Len(s) : i # j => s[i] # s[j]
Args == {None} \cup {Some(s) : s \in {t \in SeqsUpTo(Pkgs, MaxPkgs) : NoRepeat(t)}}

\* list(self.dependencies.keys())
DeclOrder == [i \in 1..MaxPkgs |-> i]

SelectionInDeclOrder(a) ==
    IF ~a.given THEN DeclOrder
    ELSE SelectSeq(DeclOrder, LAMBDA p : \E i \in 1..Len(a.names) : a.names[i] = p)

SelectionEmptyIsAll(a) == IF a.names = <<>> THEN DeclOrder ELSE a.names
\* if packages is None: packages = list(self.dependencies.keys())
Selection(a) == IF ~a.given THEN DeclOrder ELSE a.names

NoChange == [p \in Pkgs |-> "none"]

LogGuardMissing(c) == TRUE
\* def log(*args, **kwargs): if console: ...
LogGuard(c) == c

\* console.log(...) with console None raises AttributeError.
ConsoleLogRaises(c) == LogGuard(c) /\ ~c

Logged(p, msg) ==
    IF LogGuard(console) THEN Append(log, [pkg |-> p, msg |-> msg]) ELSE log

NoFirst == [taken |-> FALSE]

\* The entries of a copy_to destination that does not exist yet.
NoTarget == [n \in EntryNames |-> Absent]

\* Group(name, dependencies=...) has returned; copy_to has not been called.
Built ==
    /\ optional = FALSE /\ constructed = "yes"
    /\ target = NoTarget /\ copyOutcome = "none"

GroupFsIdle ==
    /\ Built
    /\ deps = [p \in Pkgs |-> [kind |-> "str", remote |-> "locA"]]
    /\ folderExists = FALSE
    /\ folder = [n \in EntryNames |-> Absent]
    /\ staging = {} /\ staged = EmptyTree

CleanIdle == cleanOutcome = "none" /\ preClean = folder

NoCallYet ==
    /\ pc = "idle" /\ callNo = 0 /\ arg = None /\ console = FALSE /\ work = <<>>
    /\ idx = 1 /\ outcome = "none" /\ log = <<>>
    /\ pre = folder /\ preExists = folderExists
    /\ attempted = <<>> /\ fetched = <<>> /\ handed = <<>> /\ verified = {} /\ synced = {}
    /\ changedOf = NoChange /\ nStaged = 0 /\ prevCompleted = {}
    /\ env = <<>> /\ first = NoFirst

CallIdle == NoCallYet /\ callsLeft = 0

GroupIdle == GroupFsIdle /\ CallIdle /\ CleanIdle

\* A constructed Group before one call of download: any declarations; each package's
\* folder missing or holding an earlier download.
GroupInit ==
    /\ Built
    /\ deps \in [Pkgs -> Decls]
    /\ folder \in {f \in [EntryNames -> {Absent, Dir(TreeA)}] :
                     \A n \in EntryNames \ Pkgs : f[n] = Absent}
    /\ folderExists = (\E n \in EntryNames : folder[n] # Absent)
    /\ staging = {} /\ staged = EmptyTree
    /\ NoCallYet /\ callsLeft = 1 /\ CleanIdle

\* A constructed Group before repeated calls of download: declarations that name a
\* remote, and a dependencies folder that is new or holds an earlier download of every package.
RepeatInit ==
    /\ Built
    /\ deps \in [Pkgs -> {d \in Decls : d.kind \in {"str", "dict"}}]
    /\ folder \in {[n \in EntryNames |-> Absent],
                    [n \in EntryNames |-> IF n \in Pkgs THEN Dir(TreeA) ELSE Absent]}
    /\ folderExists = (\E n \in EntryNames : folder[n] # Absent)
    /\ staging = {} /\ staged = EmptyTree
    /\ NoCallYet /\ callsLeft = MaxCalls /\ CleanIdle

Completed == {p \in Pkgs : changedOf[p] # "none"}

\* Lines 91-107: the selection, the early return, the console's status context.
download(a, c) ==
    /\ constructed = "yes"
    /\ pc = "idle" /\ callsLeft > 0 /\ cleanOutcome = "none"
    /\ callNo' = callNo + 1 /\ callsLeft' = callsLeft - 1 /\ arg' = a /\ console' = c
    /\ work' = Selection(a) /\ idx' = 1
    /\ IF Selection(a) = <<>>
         THEN pc' = "idle" /\ outcome' = "returned"
         ELSE pc' = "package" /\ outcome' = "running"
    /\ log' = <<>>
    /\ pre' = folder /\ preExists' = folderExists
    /\ attempted' = <<>> /\ fetched' = <<>> /\ handed' = <<>>
    /\ verified' = {} /\ synced' = {}
    /\ changedOf' = NoChange /\ nStaged' = 0
    /\ prevCompleted' = Completed /\ env' = <<>>
    /\ UNCHANGED <<fsvars, cvars, ovars, tvars, dvars, uvars, legvars>>

DownloadCall == \E a \in Args, c \in BOOLEAN : download(a, c)

\* An exception leaving the loop body before the TemporaryDirectory exists.
RaiseOut(exc) == outcome' = exc /\ pc' = "idle" /\ UNCHANGED idx

LeaveWithLeak(exc) ==
    /\ outcome' = exc /\ pc' = "idle" /\ UNCHANGED idx
    /\ UNCHANGED <<staging, staged>>

LeaveWithContinue(exc) ==
    /\ outcome' = IF idx = Len(work) THEN exc ELSE outcome
    /\ pc' = IF idx = Len(work) THEN "idle" ELSE "package"
    /\ idx' = IF idx = Len(work) THEN idx ELSE idx + 1
    /\ staging' = staging \ {work[idx]} /\ staged' = EmptyTree
\* An exception leaving the with block: TemporaryDirectory.__exit__ removes the
\* directory and the exception goes on out of download.
LeaveWith(exc) ==
    /\ outcome' = exc /\ pc' = "idle" /\ UNCHANGED idx
    /\ staging' = staging \ {work[idx]} /\ staged' = EmptyTree

\* Lines 109-127: mkdir of the package's folder, the declaration's normalisation, the
\* "Updating..." line and the creation of the TemporaryDirectory.
Normalize ==
    /\ pc = "package"
    /\ LET p == work[idx]
           d == deps[p]
       IN  /\ attempted' = Append(attempted, p)
           /\ IF folder[p].kind = "file"
                THEN /\ RaiseOut("FileExistsError")
                     /\ UNCHANGED <<folder, folderExists, log, staging, staged, nStaged>>
                ELSE /\ folder' = IF folder[p].kind = "absent"
                                    THEN [folder EXCEPT ![p] = Dir(EmptyTree)]
                                    ELSE folder
                     /\ folderExists' = TRUE
                     /\ IF IsList(d)
                          THEN /\ RaiseOut("NotImplementedError: List")
                               /\ UNCHANGED <<log, staging, staged, nStaged>>
                          ELSE IF ~IsStr(d) /\ ~IsDict(d)
                                 THEN /\ RaiseOut("NotImplementedError: Dictionary")
                                      /\ UNCHANGED <<log, staging, staged, nStaged>>
                          ELSE IF ConsoleLogRaises(console)
                                 THEN /\ RaiseOut("AttributeError")
                                      /\ UNCHANGED <<log, staging, staged, nStaged>>
                                 ELSE /\ log' = Logged(p, "Updating...")
                                      /\ staging' = staging \cup {p}
                                      /\ staged' = EmptyTree
                                      /\ nStaged' = nStaged + 1
                                      /\ pc' = "fetch"
                                      /\ UNCHANGED <<outcome, idx>>
    /\ UNCHANGED <<deps, callNo, callsLeft, arg, console, work, pre, preExists, fetched,
                   handed, verified, synced, changedOf, prevCompleted, env, cvars, ovars, tvars,
                   dvars, uvars, legvars>>

\* Line 128: download_uri(tmp_dir, dep_src["remote"]).
Fetch ==
    /\ pc = "fetch"
    /\ LET p == work[idx]
           d == deps[p]
       IN  IF ~HasRemote(d)
             THEN LeaveWith("KeyError") /\ UNCHANGED <<fetched, handed, env>>
             ELSE /\ fetched' = Append(fetched, p)
                  /\ handed' = Append(handed, HandedUri(d))
                  /\ \E o \in FetchOutcomes :
                       /\ env' = Append(env, o)
                       /\ IF o = "return"
                            THEN /\ staged' = Remote(d.remote)
                                 /\ pc' = "verify"
                                 /\ UNCHANGED <<staging, outcome, idx>>
                            ELSE LeaveWith("FetchError")
    /\ UNCHANGED <<deps, folderExists, folder, callNo, callsLeft, arg, console, work, log,
                   pre, preExists, attempted, verified, synced, changedOf, nStaged,
                   prevCompleted, cvars, ovars, tvars, dvars, uvars, legvars>>

\* Line 129: _verify_files(tmp_dir).
Verify ==
    /\ pc = "verify"
    /\ IF _verify_files(staged)
         THEN /\ verified' = verified \cup {work[idx]}
              /\ pc' = "sync"
              /\ UNCHANGED <<staging, staged, outcome, idx>>
         ELSE LeaveWith("SyntaxError") /\ UNCHANGED verified
    /\ UNCHANGED <<deps, folderExists, folder, callNo, callsLeft, arg, console, work, log,
                   pre, preExists, attempted, fetched, handed, synced, changedOf, nStaged,
                   prevCompleted, env, cvars, ovars, tvars, dvars, uvars, legvars>>

ReportSwapped(changed) == IF changed THEN "No changes detected." ELSE "Updated."
\* Lines 132-135: the line reported after sync.
Report(changed) == IF changed THEN "Updated." ELSE "No changes detected."

\* Lines 130-135: sync(tmp_dir, local_folder), the end of the with block, the report,
\* and the next turn of the loop or the end of download.
Sync ==
    /\ pc = "sync"
    /\ LET p == work[idx] IN
       /\ synced' = synced \cup {p}
       /\ \E o \in SyncOutcomes :
            /\ env' = Append(env, o)
            /\ IF o = "ok"
                 THEN LET r == sync(staged, folder[p].tree) IN
                      /\ folder' = [folder EXCEPT ![p] = Dir(r.dst)]
                      /\ changedOf' = [changedOf EXCEPT
                                         ![p] = IF r.changed THEN "changed" ELSE "unchanged"]
                      /\ staging' = staging \ {p} /\ staged' = EmptyTree
                      /\ log' = Logged(p, Report(r.changed))
                      /\ idx' = idx + 1
                      /\ IF idx = Len(work)
                           THEN pc' = "idle" /\ outcome' = "returned"
                           ELSE pc' = "package" /\ UNCHANGED outcome
                 ELSE /\ LeaveWith("SyncError")
                      /\ UNCHANGED <<folder, changedOf, log>>
    /\ UNCHANGED <<deps, folderExists, callNo, callsLeft, arg, console, work, pre, preExists,
                   attempted, fetched, handed, verified, nStaged, prevCompleted, cvars, ovars, tvars,
                   dvars, uvars, legvars>>

\* ------------------------------------- Group.download, with and without console
\* One call of download and then the same call on the same group in the same state of
\* the file system, with a console if the first had none and without if it had one.
Record ==
    [taken |-> TRUE, console |-> console, outcome |-> outcome, env |-> env,
     attempted |-> attempted, fetched |-> fetched, handed |-> handed,
     verified |-> verified, synced |-> synced, changedOf |-> changedOf,
     nStaged |-> nStaged, folder |-> folder, folderExists |-> folderExists,
     staging |-> staging]

FirstCall == callNo = 0 /\ DownloadCall

\* The first call is over: its record is kept and the file system is put back to what
\* the first call found.
Rewind ==
    /\ pc = "idle" /\ callNo = 1 /\ first = NoFirst
    /\ first' = Record
    /\ folder' = pre /\ folderExists' = preExists
    /\ UNCHANGED <<deps, staging, staged, callvars, histvars, cvars, ovars, dvars, uvars, legvars>>

SecondCall == first # NoFirst /\ download(arg, ~console)

\* The declarations of the comparison: a fetch that verifies, one that does not, a
\* record without remote, a list.
TwinDecls ==
    {[kind |-> "str", remote |-> "locA"], [kind |-> "str", remote |-> "locX"],
     [kind |-> "dict_noremote", remote |-> "-"], [kind |-> "list", remote |-> "-"]}

TwinInit ==
    /\ Built
    /\ deps \in [Pkgs -> TwinDecls]
    /\ folder \in {[n \in EntryNames |-> Absent],
                    [n \in EntryNames |-> IF n \in Pkgs THEN Dir(TreeB) ELSE Absent]}
    /\ folderExists = (\E n \in EntryNames : folder[n] # Absent)
    /\ staging = {} /\ staged = EmptyTree
    /\ NoCallYet /\ callsLeft = 2 /\ CleanIdle

\* -------------------------------------------------------------- Group.clean
Existing(f) == {n \in EntryNames : f[n].kind # "absent"}

Orders(S) == {o \in [1..Cardinality(S) -> S] : \A i, j \in 1..Cardinality(S) :
                                                  i # j => o[i] # o[j]}

\* Path.unlink() removes a file and raises on a directory.
UnlinkRaises(e) == e.kind = "dir"

\* dependencies = set(self.dependencies)
Declared == DOMAIN deps

\* The for loop over existing_deps, which glob("*") gave in the order `order`.
RECURSIVE CleanLoop(_, _, _)
CleanLoop(order, i, f) ==
    IF i > Len(order) THEN [folder |-> f, outcome |-> "returned"]
    ELSE IF order[i] \in Declared THEN CleanLoop(order, i + 1, f)
    ELSE IF UnlinkRaises(f[order[i]]) THEN [folder |-> f, outcome |-> "IsADirectoryError"]
    ELSE CleanLoop(order, i + 1, [f EXCEPT ![order[i]] = Absent])

\* Lines 57-70.
clean ==
    /\ constructed = "yes"
    /\ pc = "idle" /\ cleanOutcome = "none"
    /\ preClean' = folder
    /\ IF ~folderExists
         THEN cleanOutcome' = "returned" /\ UNCHANGED folder
         ELSE \E order \in Orders(Existing(folder)) :
                LET r == CleanLoop(order, 1, folder) IN
                /\ folder' = r.folder
                /\ cleanOutcome' = r.outcome
    /\ UNCHANGED <<deps, folderExists, staging, staged, callvars, histvars, tvars, optional,
                   constructed, target, copyOutcome, dvars, uvars, legvars>>

\* Clean's start: a group folder with any entries; a missing folder has none.
CleanInit ==
    /\ Built
    /\ deps = [p \in Pkgs |-> [kind |-> "str", remote |-> "locA"]]
    /\ folderExists \in BOOLEAN
    /\ folder \in [EntryNames -> {Absent, FileEntry, Dir(EmptyTree), Dir(TreeA)}]
    /\ ~folderExists => folder = [n \in EntryNames |-> Absent]
    /\ staging = {} /\ staged = EmptyTree
    /\ NoCallYet /\ callsLeft = 0 /\ CleanIdle

\* ------------------------------------------------- Group.__init__, copy_to
IsOptionalNever(o) == FALSE
\* if self.config.optional:
IsOptional(o) == o

\* Lines 34-42: the config and the folder are set on the new object, and then an
\* optional group raises, so that Group(...) gives its caller no object.
Group__init__ ==
    /\ constructed = "no"
    /\ constructed' = IF IsOptional(optional) THEN "NotImplementedError" ELSE "yes"
    /\ UNCHANGED <<optional, target, copyOutcome, fsvars, callvars, histvars, cvars, tvars,
                   dvars, uvars, legvars>>

\* shutil.copytree(src, dst, dirs_exist_ok=True) for one entry: the files of src are
\* written over those of dst, and the other files of dst stay.
Merged(src, dst) ==
    IF src.kind = "absent" THEN dst
    ELSE IF src.kind = "file" THEN src
    ELSE [kind |-> "dir",
          tree |-> [f \in Files |-> IF src.tree[f] # "none" THEN src.tree[f]
                                                            ELSE dst.tree[f]]]

\* Lines 72-75.
copy_to ==
    /\ constructed = "yes"
    /\ pc = "idle" /\ copyOutcome = "none"
    /\ copyOutcome' = "returned"
    /\ target' = IF folderExists THEN [n \in EntryNames |-> Merged(folder[n], target[n])]
                                  ELSE target
    /\ UNCHANGED <<optional, constructed, fsvars, callvars, histvars, cvars, tvars, dvars,
                   uvars, legvars>>

\* Before Group(...) is called: the group's configuration, optional or not, the
\* dependencies folder and a copy_to destination.
LifeInit ==
    /\ optional \in BOOLEAN /\ constructed = "no"
    /\ target \in {NoTarget, [n \in EntryNames |-> IF n = 1 THEN Dir(TreeX) ELSE Absent]}
    /\ copyOutcome = "none"
    /\ deps \in [Pkgs -> TwinDecls]
    /\ folder \in {[n \in EntryNames |-> Absent],
                    [n \in EntryNames |-> IF n \in Pkgs THEN Dir(TreeA)
                                          ELSE IF n = MaxPkgs + 1 THEN FileEntry
                                          ELSE Absent]}
    /\ folderExists = (\E n \in EntryNames : folder[n] # Absent)
    /\ staging = {} /\ staged = EmptyTree
    /\ NoCallYet /\ callsLeft = 1 /\ CleanIdle

\* --------------------------------------------------- download_dependencies
\* The URLs of the legacy declarations: a github.com blob URL of a .py file, a .py URL
\* of another host, the same with a query, and a github.com URL of one segment.
LegacyUrl(loc) ==
    CASE loc = "blob" ->
           [scheme |-> "https", netloc |-> PlainNetloc("github.com"),
            segs |-> <<"a", "b", "a", "b", "m.py">>, query |-> ""]
      [] loc = "plain" ->
           [scheme |-> "https", netloc |-> PlainNetloc("example.com"),
            segs |-> <<"a", "m.py">>, query |-> ""]
      [] loc = "query" ->
           [scheme |-> "https", netloc |-> PlainNetloc("example.com"),
            segs |-> <<"a", "m.py">>, query |-> "?token=t"]
      [] OTHER ->
           [scheme |-> "https", netloc |-> PlainNetloc("github.com"),
            segs |-> <<"a">>, query |-> ""]

\* The values of dependencies[pkg_name].
LegacyDecls ==
    {[kind |-> "str", path |-> l] : l \in {"blob", "query", "short"}}
      \cup {[kind |-> "dict", path |-> "plain"],
            [kind |-> "dict_nopath", path |-> "-"],
            [kind |-> "other", path |-> "-"]}

\* isinstance(dep, dict)
IsLegacyDict(d) == d.kind \in {"dict", "dict_nopath"}
\* dep["path"] after the normalisation of a str
HasPath(d) == d.kind \in {"str", "dict"}

\* Path(url).suffix: what follows the last dot of the last path component; the url's
\* query, when there is one, is part of that component.
Suffix(u) ==
    LET names == SelectSeq(u.segs, LAMBDA x : x # "") IN
    IF names = <<>> THEN ""
    ELSE IF names[Len(names)] # "m.py" THEN ""
    ELSE IF u.query = "" THEN ".py" ELSE ".py" \o u.query

\* What _get_text may return: an empty text, two valid scripts, one ast.parse rejects.
Texts == {"", "ok1", "ok2", "bad"}
\* ast.parse(new_code) does not raise.
Parses(t) == t # "bad"

\* old_code: dst.read_text(), or "" on FileNotFoundError.
OldCode(f) == IF f = "missing" THEN "" ELSE f

SameCodeNever(new, old) == FALSE
\* new_code == old_code
SameCode(new, old) == new = old

\* if not packages: packages = list(dependencies.keys())
LegacySelection(a) == IF ~a.given \/ a.names = <<>> THEN DeclOrder ELSE a.names

LegacyLogged(p, msg) ==
    IF legConsole THEN Append(legLog, [pkg |-> p, msg |-> msg]) ELSE legLog

LegacyIdle ==
    /\ legDeps = [p \in Pkgs |-> [kind |-> "dict", path |-> "plain"]]
    /\ legFile = [p \in Pkgs |-> "missing"] /\ legDirExists = FALSE
    /\ legPc = "idle" /\ legArg = None /\ legConsole = FALSE /\ legWork = <<>>
    /\ legIdx = 1 /\ legOutcome = "none" /\ legLog = <<>>
    /\ legPre = legFile /\ legText = [p \in Pkgs |-> "none"]
    /\ legParsed = {} /\ legWrites = <<>> /\ legDone = {}

\* Before a call of download_dependencies: any declarations, and under local_dir each
\* package's file missing or holding a script.
LegacyInit ==
    /\ legDeps \in [Pkgs -> LegacyDecls]
    /\ legFile \in [Pkgs -> {"missing", "ok1"}]
    /\ legDirExists = (\E p \in Pkgs : legFile[p] # "missing")
    /\ legPc = "idle" /\ legArg = None /\ legConsole = FALSE /\ legWork = <<>>
    /\ legIdx = 1 /\ legOutcome = "none" /\ legLog = <<>>
    /\ legPre = legFile /\ legText = [p \in Pkgs |-> "none"]
    /\ legParsed = {} /\ legWrites = <<>> /\ legDone = {}

\* Lines 79-95.
download_dependencies(a, c) ==
    /\ legPc = "idle" /\ legOutcome = "none"
    /\ legArg' = a /\ legConsole' = c
    /\ legWork' = LegacySelection(a) /\ legIdx' = 1
    /\ legPc' = "package" /\ legOutcome' = "running"
    /\ UNCHANGED <<legDeps, legFile, legDirExists, legLog, legPre, legText, legParsed,
                   legWrites, legDone, dvars, uvars, gvars>>

LegacyCall == \E a \in Args, c \in BOOLEAN : download_dependencies(a, c)

LegacyRaise(exc) == legOutcome' = exc /\ legPc' = "idle"

\* Lines 97-111: the declaration's normalisation, the "Updating..." line, _process_url,
\* the test of the suffix and the mkdir of dst's parent.
LegacyPrepare ==
    /\ legPc = "package"
    /\ LET p == legWork[legIdx]
           d == legDeps[p]
       IN  IF ~IsStr(d) /\ ~IsLegacyDict(d)
             THEN LegacyRaise("ValueError: Invalid value") /\ UNCHANGED <<legLog, legDirExists>>
             ELSE /\ legLog' = LegacyLogged(p, "Updating...")
                  /\ IF ~HasPath(d)
                       THEN LegacyRaise("KeyError") /\ UNCHANGED legDirExists
                       ELSE LET r == _process_url(LegacyUrl(d.path)) IN
                            IF r.kind = "raise"
                              THEN LegacyRaise(r.exc) /\ UNCHANGED legDirExists
                              ELSE IF Suffix(r.url) # ".py"
                                     THEN /\ LegacyRaise("NotImplementedError")
                                          /\ UNCHANGED legDirExists
                                     ELSE /\ legDirExists' = TRUE
                                          /\ legPc' = "fetch"
                                          /\ UNCHANGED legOutcome
    /\ UNCHANGED <<legDeps, legFile, legArg, legConsole, legWork, legIdx, legPre, legText,
                   legParsed, legWrites, legDone, dvars, uvars, gvars>>

\* The end of the loop body: the next package, or the return.
LegacyNext ==
    /\ legDone' = legDone \cup {legWork[legIdx]}
    /\ legIdx' = legIdx + 1
    /\ IF legIdx = Len(legWork)
         THEN legPc' = "idle" /\ legOutcome' = "returned"
         ELSE legPc' = "package" /\ UNCHANGED legOutcome

\* Lines 113-125: _get_text, ast.parse, the read of the old code, the comparison, the
\* report and the write.
LegacyFetch ==
    /\ legPc = "fetch"
    /\ LET p == legWork[legIdx] IN
       \/ /\ LegacyRaise("HTTPError")
          /\ UNCHANGED <<legText, legParsed, legFile, legWrites, legLog, legDone, legIdx>>
       \/ \E new_code \in Texts :
            /\ legText' = [legText EXCEPT ![p] = new_code]
            /\ IF ~Parses(new_code)
                 THEN /\ LegacyRaise("SyntaxError")
                      /\ UNCHANGED <<legParsed, legFile, legWrites, legLog, legDone, legIdx>>
                 ELSE /\ legParsed' = legParsed \cup {p}
                      /\ IF SameCode(new_code, OldCode(legFile[p]))
                           THEN /\ legLog' = LegacyLogged(p, "No changes detected.")
                                /\ UNCHANGED <<legFile, legWrites>>
                           ELSE /\ legLog' = LegacyLogged(p, "Updated.")
                                /\ legFile' = [legFile EXCEPT ![p] = new_code]
                                /\ legWrites' = Append(legWrites, p)
                      /\ LegacyNext
    /\ UNCHANGED <<legDeps, legDirExists, legArg, legConsole, legWork, legPre, dvars, uvars,
                   gvars>>

\* ---------------------------------------------------------- specifications
NextDispatch == InvokeStrategy \/ InvokeGeneric
InitDispatch == DispatchInit /\ UrlIdle /\ GroupIdle /\ LegacyIdle
SpecDispatch == InitDispatch /\ [][NextDispatch]_vars

NextUrl == Resolve
InitUrl == UrlInit /\ DispatchIdle /\ GroupIdle /\ LegacyIdle
SpecUrl == InitUrl /\ [][NextUrl]_vars

NextGroup == DownloadCall \/ Normalize \/ Fetch \/ Verify \/ Sync
InitGroup == GroupInit /\ DispatchIdle /\ UrlIdle /\ LegacyIdle
SpecGroup == InitGroup /\ [][NextGroup]_vars

InitRepeat == RepeatInit /\ DispatchIdle /\ UrlIdle /\ LegacyIdle
SpecRepeat == InitRepeat /\ [][NextGroup]_vars

NextTwin == FirstCall \/ Normalize \/ Fetch \/ Verify \/ Sync \/ Rewind \/ SecondCall
InitTwin == TwinInit /\ DispatchIdle /\ UrlIdle /\ LegacyIdle
SpecTwin == InitTwin /\ [][NextTwin]_vars

NextLife ==
    Group__init__ \/ DownloadCall \/ Normalize \/ Fetch \/ Verify \/ Sync \/ clean \/ copy_to
InitLife == LifeInit /\ DispatchIdle /\ UrlIdle /\ LegacyIdle
SpecLife == InitLife /\ [][NextLife]_vars

NextLegacy == LegacyCall \/ LegacyPrepare \/ LegacyFetch
InitLegacy == LegacyInit /\ DispatchIdle /\ UrlIdle /\ GroupIdle
SpecLegacy == InitLegacy /\ [][NextLegacy]_vars

NextClean == clean
InitClean == CleanInit /\ DispatchIdle /\ UrlIdle /\ LegacyIdle
SpecClean == InitClean /\ [][NextClean]_vars

\* ------------------------------------------------------------------ claims
AllDeclined == \A j \in 1..Len(reg) : reg[j] = "NonMatchingURI"

GenericInvoked == \E k \in 1..Len(dCalls) : dCalls[k] = GENERIC

\* C1: download_uri invokes the registered strategies in registration order, each only
\* after every earlier one raised NonMatchingURI; what the first strategy that does not
\* decline returns is what download_uri returns, and nothing is invoked after it;
\* _download_generic is invoked exactly when every registered strategy declined (an
\* empty registry included).
C1_DispatchOrder ==
    /\ \A k \in 1..Len(dCalls) :
         /\ dCalls[k] = IF k <= Len(reg) THEN k ELSE GENERIC
         /\ \A j \in 1..(k - 1) : j <= Len(reg) /\ reg[j] = "NonMatchingURI"
    /\ \A k \in 1..Len(reg) :
         (reg[k] # "NonMatchingURI" /\ \A j \in 1..(k - 1) : reg[j] = "NonMatchingURI")
           => /\ Len(dCalls) <= k
              /\ dpc # "loop" =>
                   /\ dCalls = [i \in 1..k |-> i]
                   /\ dResult.by = k /\ dResult.value = reg[k]
                   /\ reg[k] \in {"dst", "file"} => dpc = "returned" /\ dResult.kind = "return"
    /\ dpc # "loop" => (GenericInvoked <=> AllDeclined)
    /\ (dpc # "loop" /\ GenericInvoked) =>
         /\ dCalls = [i \in 1..(Len(reg) + 1) |-> IF i <= Len(reg) THEN i ELSE GENERIC]
         /\ dResult.by = GENERIC /\ dResult.value = genOut

\* C1 witness: of three strategies the first declined and the second returned a file.
C1_Witness ==
    /\ Len(reg) = 3 /\ reg[1] = "NonMatchingURI" /\ reg[2] = "file"
    /\ dpc = "returned" /\ dCalls = <<1, 2>> /\ dResult.by = 2

RemoveAt(s, i) == SubSeq(s, 1, i - 1) \o SubSeq(s, i + 1, Len(s))

StripWww(u) == [u EXCEPT !.netloc.www = FALSE]

IsRawResult(r, segs) ==
    /\ r.kind = "ok"
    /\ r.url.scheme = "https"
    /\ r.url.netloc = [www |-> FALSE, host |-> "raw.githubusercontent.com", port |-> ""]
    /\ r.url.segs = segs
    /\ r.url.query = ""

\* C10 as stated: a URL whose host is github.com (www. stripped) and whose path is
\* /user/project/mode/branch/p1/.../pn resolves to
\* https://raw.githubusercontent.com/user/project/branch/p1/.../pn, and a URL whose host
\* is raw.githubusercontent.com resolves to itself up to the stripping of www.
C10_AsStated ==
    resolved # Unresolved =>
      /\ (url.netloc.host = "github.com" /\ Len(url.segs) >= 5)
           => IsRawResult(resolved, RemoveAt(url.segs, 3))
      /\ url.netloc.host = "raw.githubusercontent.com"
           => resolved = [kind |-> "ok", url |-> StripWww(url)]

\* C10 amended: the match is on the whole network location (github.com or
\* www.github.com, no port). With at least four path segments the result is the https
\* raw.githubusercontent.com URL of the path without its third segment (and with a
\* trailing slash when nothing follows the branch), query dropped. A network location of
\* raw.githubusercontent.com or www.raw.githubusercontent.com gives
\* https://raw.githubusercontent.com followed by the path alone, which is the input up
\* to www. exactly when the input's scheme is https and it has no query.
C10_Resolves ==
    resolved # Unresolved =>
      /\ (url.netloc.host = "github.com" /\ url.netloc.port = "" /\ Len(url.segs) >= 5)
           => IsRawResult(resolved, RemoveAt(url.segs, 3))
      /\ (url.netloc.host = "github.com" /\ url.netloc.port = "" /\ Len(url.segs) = 4)
           => IsRawResult(resolved, <<url.segs[1], url.segs[2], url.segs[4], "">>)
      /\ (url.netloc.host = "raw.githubusercontent.com" /\ url.netloc.port = "")
           => /\ IsRawResult(resolved, url.segs)
              /\ (resolved.url = StripWww(url)) <=> (url.scheme = "https" /\ url.query = "")

\* C10 witness: http://www.github.com/a/b/a/b/a/b?token=t was resolved.
C10_Witness ==
    /\ url.scheme = "http" /\ url.netloc = [www |-> TRUE, host |-> "github.com", port |-> ""]
    /\ url.segs = <<"a", "b", "a", "b", "a", "b">> /\ url.query = "?token=t"
    /\ resolved.kind = "ok" /\ resolved.url.segs = <<"a", "b", "b", "a", "b">>

IsException(o) == o \notin {"none", "running", "returned"}

Range(q) == {q[i] : i \in 1..Len(q)}

Finished == callNo > 0 /\ pc = "idle"

\* C2: when the fetch of a package fails, or its staged tree holds an invalid .py file,
\* the package's destination folder is as it was before the call (existence, files and
\* contents) and sync was not called for the package.
C2_FailureLeavesDestination ==
    (Finished /\ outcome \in {"FetchError", "SyntaxError"})
      => /\ folder[work[idx]] = pre[work[idx]]
         /\ work[idx] \notin synced

\* C3 as stated: when one package's pipeline fails, every other selected package is
\* still processed, and no destination folder is half-written.
C3_AsStated ==
    (Finished /\ IsException(outcome))
      => /\ \A q \in Range(work) : q # work[idx] => q \in Range(attempted)
         /\ \A q \in Pkgs : \/ folder[q].tree = pre[q].tree
                            \/ HasRemote(deps[q]) /\ folder[q].tree = Remote(deps[q].remote)

\* C3 amended: a failure in one package's pipeline leaves download at once. The
\* packages before it in the processing order have been carried through sync and mirror
\* their remotes, the failing package's folder holds what it held before the call, no
\* later package has been touched, and no destination folder is half-written.
C3_FailureStopsBatch ==
    (Finished /\ IsException(outcome))
      => /\ idx \in 1..Len(work)
         /\ attempted = SubSeq(work, 1, idx)
         /\ \A k \in 1..(idx - 1) :
              /\ changedOf[work[k]] # "none"
              /\ folder[work[k]] = [kind |-> "dir", tree |-> Remote(deps[work[k]].remote)]
         /\ folder[work[idx]].tree = pre[work[idx]].tree
         /\ changedOf[work[idx]] = "none"
         /\ \A k \in (idx + 1)..Len(work) :
              /\ folder[work[k]] = pre[work[k]]
              /\ work[k] \notin Range(fetched) \cup synced
         /\ \A n \in EntryNames \ Range(work) : folder[n] = pre[n]

\* C3 witness: the first of two selected packages failed to fetch, and the second,
\* whose folder is missing, was never started.
C3_Witness ==
    /\ Finished /\ outcome = "FetchError" /\ Len(work) = 2 /\ idx = 1
    /\ attempted = <<work[1]>>
    /\ HasRemote(deps[work[2]]) /\ folder[work[2]].kind = "absent"

NoBadScript(t) == t["a.py"] # "bad"

\* C4: sync is called on a staging directory only after download_uri returned for it
\* and _verify_files passed on it, so every tree copied into a destination folder has
\* only valid .py files.
C4_SyncAfterVerify ==
    /\ \A p \in synced : p \in Range(fetched) /\ p \in verified
    /\ pc = "sync" => /\ work[idx] \in staging
                      /\ work[idx] \in Range(fetched) /\ work[idx] \in verified
                      /\ NoBadScript(staged)
    /\ \A p \in Pkgs : changedOf[p] # "none" => NoBadScript(folder[p].tree)

\* C4 witness: a fetched and verified tree was synced into a destination folder.
C4_Witness ==
    \E p \in Pkgs : /\ changedOf[p] = "changed" /\ p \in verified
                    /\ folder[p] = [kind |-> "dir", tree |-> TreeB]

\* C5: no staging directory outlives its package's pipeline: none exists once download
\* has returned or raised, whether the pipeline ended in sync, in a fetch error, in a
\* verification error or in a sync error, and none exists between two packages.
C5_StagingRemoved ==
    /\ pc \in {"idle", "package"} => staging = {} /\ staged = EmptyTree
    /\ staging \subseteq (IF pc \in {"fetch", "verify", "sync"} THEN {work[idx]} ELSE {})

\* C5 witness: the second package's staged tree failed verification, and its staging
\* directory is gone.
C5_Witness ==
    /\ Finished /\ outcome = "SyntaxError" /\ nStaged = 2 /\ staging = {}

C7_CleanKeepsDeclaredOnly ==
    cleanOutcome # "none" =>
      /\ \A n \in EntryNames : folder[n] = IF n \in Pkgs THEN preClean[n] ELSE Absent
      /\ ~folderExists => folder = preClean

\* C8 as stated: when download raises for a list-valued declaration, download_uri has
\* not been called in that call, wherever the list-valued package stands.
C8_AsStated ==
    outcome = "NotImplementedError: List" => fetched = <<>>

\* C8 amended: a list-valued declaration makes download raise NotImplementedError when
\* the loop reaches its package; download_uri is never called for that package or for
\* a later one, and not at all when the package is the first to be processed; the
\* packages before it have been fetched.
C8_ListFailsFast ==
    /\ \A p \in Range(attempted) :
         deps[p].kind = "list"
           => /\ pc = "idle" /\ outcome = "NotImplementedError: List"
              /\ work[idx] = p
    /\ outcome = "NotImplementedError: List"
         => /\ deps[work[idx]].kind = "list"
            /\ fetched = SubSeq(work, 1, idx - 1)
            /\ nStaged = idx - 1
            /\ idx = 1 => fetched = <<>>

\* C8 witness: the list-valued package came second, after the first was fetched.
C8_Witness ==
    outcome = "NotImplementedError: List" /\ idx = 2 /\ fetched = <<work[1]>>

\* C9: with packages None every declared package is processed, in declaration order;
\* with an explicit empty list download returns at once: nothing fetched, no staging
\* directory, no destination folder created or changed, nothing reported.
C9_Selection ==
    /\ (callNo > 0 /\ ~arg.given)
         => /\ work = [i \in 1..MaxPkgs |-> i]
            /\ outcome = "returned"
                 => attempted = work /\ \A p \in Pkgs : changedOf[p] # "none"
    /\ (callNo > 0 /\ arg.given /\ arg.names = <<>>)
         => /\ pc = "idle" /\ outcome = "returned"
            /\ folder = pre /\ folderExists = preExists
            /\ attempted = <<>> /\ fetched = <<>> /\ synced = {}
            /\ nStaged = 0 /\ staging = {} /\ log = <<>>

\* C9 witness: download([]) with a console returned, and a folder that was missing is
\* still missing.
C9_Witness ==
    /\ callNo = 1 /\ arg.given /\ arg.names = <<>> /\ console /\ outcome = "returned"
    /\ \E p \in Pkgs : folder[p].kind = "absent"

IsGithubNetloc(u) == u.netloc.host = "github.com" /\ u.netloc.port = ""

\* C11: for every locator whose host is neither github.com nor
\* raw.githubusercontent.com (a leading www. apart), _process_url returns exactly the
\* input, unchanged: same scheme, same network location with its www. and port, same
\* path, same query.
C11_OtherHostUnchanged ==
    (resolved # Unresolved
       /\ url.netloc.host \notin {"github.com", "raw.githubusercontent.com"})
      => resolved = [kind |-> "ok", url |-> url]

\* C11 witness: http://www.example.com:443/a/b?token=t was resolved to itself.
C11_Witness ==
    /\ url.scheme = "http"
    /\ url.netloc = [www |-> TRUE, host |-> "example.com", port |-> ":443"]
    /\ url.segs = <<"a", "b">> /\ url.query = "?token=t"
    /\ resolved = [kind |-> "ok", url |-> url]

C19_ErrorStopsDispatch ==
    \A k \in 1..Len(reg) :
      (reg[k] = "error" /\ \A j \in 1..(k - 1) : reg[j] = "NonMatchingURI")
        => /\ Len(dCalls) <= k
           /\ \A i \in 1..Len(dCalls) : dCalls[i] = i
           /\ dpc # "returned"
           /\ Len(dCalls) = k
                => /\ dpc = "raised"
                   /\ dResult = [kind |-> "raise", by |-> k, value |-> "error"]

\* C19 witness: the first strategy declined, the second failed, and the third, which
\* would have returned a file, was never invoked, nor was _download_generic.
C19_Witness ==
    /\ reg = <<"NonMatchingURI", "error", "file">>
    /\ dpc = "raised" /\ dCalls = <<1, 2>> /\ dResult.value = "error"

InPipeline == pc \in {"fetch", "verify", "sync"}

\* C16 as stated: packages are processed in the order of their declaration in the
\* group, also when an explicit subset is passed.
C16_AsStated ==
    \A i, j \in 1..Len(attempted) : i < j => attempted[i] < attempted[j]

\* C16 amended: packages are processed strictly one at a time, in the order of the
\* packages argument, which is declaration order when no argument is given: the loop
\* body of package k+1 is entered only after package k has been carried through sync and
\* its staging directory removed, and at most one staging directory exists at any time,
\* that of the package in progress.
C16_OneAtATimeInGivenOrder ==
    callNo > 0 =>
      /\ work = IF arg.given THEN arg.names ELSE [i \in 1..MaxPkgs |-> i]
      /\ Len(attempted) <= Len(work) /\ attempted = SubSeq(work, 1, Len(attempted))
      /\ Cardinality(staging) <= 1
      /\ nStaged <= Len(attempted)
      /\ InPipeline => Len(attempted) = idx /\ staging = {work[idx]}
      /\ pc = "package" => Len(attempted) = idx - 1 /\ staging = {}
      /\ \A k \in 1..Len(attempted) :
           (k < Len(attempted) \/ outcome = "returned")
             => /\ changedOf[work[k]] # "none"
                /\ work[k] \in synced /\ work[k] \notin staging
      /\ Range(fetched) \cup synced \cup verified \subseteq Range(attempted)

\* C16 witness: download(packages=[second, first]) is fetching the first declared
\* package after it carried the second declared package through sync.
C16_Witness ==
    /\ arg.given /\ arg.names = <<2, 1>>
    /\ pc = "fetch" /\ attempted = <<2, 1>> /\ staging = {1}
    /\ changedOf[2] # "none" /\ changedOf[1] = "none"

IsConfigError(o) == o \in {"NotImplementedError: List", "NotImplementedError: Dictionary"}

\* C17: normalisation accepts a plain string or a record made of a remote field alone; a
\* list, a record with fields beyond remote and a record without remote each make
\* download raise a configuration error when the loop reaches the package, before a
\* TemporaryDirectory is created for it and before download_uri is called for it.
C17_OnlyStringOrRemoteRecord ==
    \A k \in 1..Len(attempted) :
      deps[attempted[k]].kind \in {"list", "dict_extra", "dict_noremote"}
        => /\ pc = "idle" /\ IsConfigError(outcome)
           /\ nStaged = k - 1
           /\ attempted[k] \notin staging
           /\ attempted[k] \notin Range(fetched)

\* C13 as stated: the uri handed to download_uri is the result of _process_url applied
\* to the declaration's remote.
C13_AsStated ==
    /\ Len(handed) = Len(fetched)
    /\ \A k \in 1..Len(handed) :
         handed[k] = _process_url(LocatorUrl(deps[fetched[k]].remote)).url

\* C13 amended: Group.download does not resolve the locator; the uri handed to
\* download_uri is the declaration's remote exactly as declared (the string itself, or
\* the record's remote field), so a github.com blob URL reaches the registry as the
\* blob URL, which differs from what _process_url would make of it.
C13_RemoteHandedVerbatim ==
    /\ Len(handed) = Len(fetched)
    /\ \A k \in 1..Len(handed) :
         LET remote == LocatorUrl(deps[fetched[k]].remote) IN
         /\ handed[k] = remote
         /\ IsGithubNetloc(remote) => handed[k] # _process_url(remote).url

\* C13 witness: download_uri was called with a github.com blob URL.
C13_Witness ==
    /\ Len(handed) = 1 /\ pc = "verify"
    /\ handed[1].netloc.host = "github.com" /\ Len(handed[1].segs) = 5
    /\ _process_url(handed[1]).url.netloc.host = "raw.githubusercontent.com"

IsPrefix(s, t) == Len(s) <= Len(t) /\ s = SubSeq(t, 1, Len(s))

\* C14: a call of download and the same call with the console the other way round, on
\* the same group, selection, destination state and with download_uri and sync behaving
\* the same, enter the same packages, call download_uri with the same uris, verify and
\* sync the same packages, create as many staging directories, leave the same
\* destination folders and end with the same return or the same exception; neither call
\* stops earlier or goes further than the other.
C14_ConsoleMakesNoDifference ==
    (first # NoFirst /\ callNo = 2) =>
      /\ console # first.console
      /\ ~(IsPrefix(first.env, env) /\ env # first.env)
      /\ (pc = "idle" /\ IsPrefix(env, first.env))
           => /\ env = first.env
              /\ outcome = first.outcome
              /\ attempted = first.attempted
              /\ fetched = first.fetched /\ handed = first.handed
              /\ verified = first.verified /\ synced = first.synced
              /\ changedOf = first.changedOf
              /\ nStaged = first.nStaged
              /\ folder = first.folder /\ folderExists = first.folderExists
              /\ staging = first.staging

\* C14 witness: the first call, with a console, synced one package and failed on the
\* verification of the next; the second call, without a console, did the same.
C14_Witness ==
    /\ first # NoFirst /\ callNo = 2 /\ pc = "idle"
    /\ first.console /\ ~console /\ log = <<>>
    /\ env = first.env /\ outcome = "SyntaxError" /\ first.outcome = "SyntaxError"
    /\ Len(attempted) = 2 /\ changedOf[attempted[1]] = "changed"
    /\ folder = first.folder /\ folder # pre

\* C18: Group(...) with optional true raises NotImplementedError and never returns a
\* Group, so for an optional group download, clean and copy_to are never called: no
\* package is entered, no staging directory is created, and the dependencies folder and
\* the copy_to destination stay as they were.
C18_OptionalNeverConstructed ==
    optional =>
      /\ constructed \in {"no", "NotImplementedError"}
      /\ callNo = 0 /\ pc = "idle" /\ outcome = "none"
      /\ attempted = <<>> /\ nStaged = 0 /\ staging = {}
      /\ cleanOutcome = "none" /\ copyOutcome = "none"
      /\ folder = pre /\ folder = preClean

\* C18 witness: the construction of an optional group with an existing dependencies
\* folder has raised.
C18_Witness ==
    /\ optional /\ constructed = "NotImplementedError"
    /\ folderExists /\ \E n \in EntryNames \ Pkgs : folder[n].kind = "file"

\* The lines console.log received for package p that tell how its update ended.
EndReports(p) ==
    {i \in 1..Len(legLog) : /\ legLog[i].pkg = p
                            /\ legLog[i].msg \in {"Updated.", "No changes detected."}}

\* C20, the part on the file: dst.write_text is called for a package only with a text
\* that passed ast.parse and differs from the file's content (a missing file counting as
\* empty), and then the file holds that text; when the parse fails or the text equals
\* the content, the file is as it was before the call.
LegacyFileWrittenOnlyWhenNeeded ==
    \A p \in Pkgs :
      /\ (\E i \in 1..Len(legWrites) : legWrites[i] = p) <=> legFile[p] # legPre[p]
      /\ legFile[p] # legPre[p]
           => /\ p \in legParsed /\ legFile[p] = legText[p]
              /\ legText[p] # "bad"
              /\ legText[p] # (IF legPre[p] = "missing" THEN "" ELSE legPre[p])
      /\ (legText[p] = "bad" \/ legText[p] = (IF legPre[p] = "missing" THEN "" ELSE legPre[p]))
           => legFile[p] = legPre[p]
      /\ legText[p] = "bad" => p \notin legParsed /\ p \notin legDone
      /\ p \notin legDone => legFile[p] = legPre[p]

\* C20 as stated: the file is written only when needed, and exactly one of "Updated."
\* and "No changes detected." is reported for each package that completes.
C20_AsStated ==
    /\ LegacyFileWrittenOnlyWhenNeeded
    /\ \A p \in legDone : Cardinality(EndReports(p)) = 1

\* C20 amended: the file is written only when needed; when a console was passed,
\* exactly one of "Updated." and "No changes detected." is reported for each package
\* that completes, "Updated." exactly when the file was written, and none for a package
\* that does not complete; when no console was passed nothing is reported.
C20_LegacyWriteAndReport ==
    /\ LegacyFileWrittenOnlyWhenNeeded
    /\ ~legConsole => legLog = <<>>
    /\ legConsole =>
         \A p \in Pkgs :
           /\ Cardinality(EndReports(p)) = IF p \in legDone THEN 1 ELSE 0
           /\ \A i \in EndReports(p) :
                (legLog[i].msg = "Updated.") <=> (legFile[p] # legPre[p])

\* C20 witness: with a console, one package's file was rewritten with a new text and
\* reported "Updated.", and the other's fetched text equalled its file, which was left
\* alone and reported "No changes detected.".
C20_Witness ==
    /\ legConsole /\ legOutcome = "returned"
    /\ \E p, q \in Pkgs :
         /\ legPre[p] = "ok1" /\ legFile[p] = "ok2"
         /\ legPre[q] = "missing" /\ legText[q] = "" /\ legFile[q] = "missing"
         /\ \E i, j \in 1..Len(legLog) :
              /\ legLog[i] = [pkg |-> p, msg |-> "Updated."]
              /\ legLog[j] = [pkg |-> q, msg |-> "No changes detected."]

====
